---- MODULE Spec2Model ----
(***************************************************************************)
(* Model of toolbox/model_check.py: the readiness gate check_model_ready,  *)
(* the registry _TRAINED_ATTRS with its lookup _find_required_attr, the    *)
(* catch decorator and flatten_dict.                                       *)
(*                                                                         *)
(* Python values are modelled as follows.  A class is a string, and        *)
(* isinstance is membership in the set of classes of its MRO.  An object   *)
(* is its class plus the set of attribute names it carries.  A string that *)
(* the code builds (a flattened key) is a sequence of one-character        *)
(* strings, so that concatenation is \o.  The outcome of a call is a       *)
(* record: it either returns a value or raises an exception.               *)
(***************************************************************************)
EXTENDS Integers, Sequences, FiniteSets, TLC

VARIABLES
    registry,       \* _TRAINED_ATTRS: sequence of <<class, attribute>> in insertion order
    cls,            \* type(model) of the caller's model object
    attrs,          \* names of the attributes the model object carries
    op,             \* the operation that ran last
    callArgs,       \* *args of the last call (after the model)
    callKwargs,     \* **kwargs of the last call
    invocations,    \* invocations of the wrapped function made by the last call
    outcome,        \* how the last call ended: return value or raised exception
    required_attr,  \* the local of wrapper / the result of the last lookup
    rejectedBefore, \* history: an earlier gated call on this object was rejected
    d,              \* flatten_dict: the nested mapping passed in
    sep,            \* flatten_dict: the separator passed in
    flat            \* flatten_dict: the returned mapping

gateVars == <<registry, cls, attrs, op, callArgs, callKwargs, invocations,
              outcome, required_attr, rejectedBefore>>
flatVars == <<d, sep, flat>>
vars == <<registry, cls, attrs, op, callArgs, callKwargs, invocations,
          outcome, required_attr, rejectedBefore, d, sep, flat>>

-----------------------------------------------------------------------------
(* Python values *)

None == "None"

Return(v) == [kind |-> "return", val |-> v]
Raise(e) == [kind |-> "raise", val |-> e]

\* What the wrapped function may return: None, a non-empty value, an empty value
FuncValues == {None, "ok", "[]"}

\* Exceptions the wrapped function may raise
ExcClasses == {"ZeroDivisionError", "KeyboardInterrupt"}

\* MRO of each exception class
ExcBases(e) ==
    IF e = "KeyboardInterrupt"
    THEN {"KeyboardInterrupt", "BaseException"}
    ELSE {e, "Exception", "BaseException"}

FuncOutcomes == {Return(v) : v \in FuncValues} \cup {Raise(e) : e \in ExcClasses}

\* Extra positional and keyword arguments a caller passes
ArgLists == {<<>>, <<"X", "y">>}
KwargSets == {{}, {"verbose"}}

-----------------------------------------------------------------------------
(* Classes *)

\* Classes of the objects handed to the gate.  DummyModel is the plain class
\* of the tests; MyLogReg subclasses LogisticRegression; TreeLog derives from
\* DecisionTreeClassifier and LogisticRegression (in that order); KMeans is an
\* estimator that the registry does not list.
Classes == {"DummyModel", "LogisticRegression", "RandomForestClassifier",
            "DecisionTreeClassifier", "SVC", "KNeighborsClassifier",
            "MyLogReg", "TreeLog", "KMeans"}

SklearnClassifiers == {"LogisticRegression", "RandomForestClassifier",
                       "DecisionTreeClassifier", "SVC", "KNeighborsClassifier"}

\* The classes in the MRO of class c
Mro(c) ==
    CASE c = "DummyModel" -> {"DummyModel", "object"}
      [] c \in SklearnClassifiers -> {c, "BaseEstimator", "object"}
      [] c = "MyLogReg" -> {"MyLogReg", "LogisticRegression", "BaseEstimator", "object"}
      [] c = "TreeLog" -> {"TreeLog", "DecisionTreeClassifier", "LogisticRegression",
                           "BaseEstimator", "object"}
      [] c = "KMeans" -> {"KMeans", "BaseEstimator", "object"}

\* isinstance(model, k) for a model of class c
isinstance(c, k) == k \in Mro(c)

\* hasattr(model, a) for a model carrying the attributes as
hasattr(as, a) == a \in as

\* Truth value of a str | None
Truthy(x) == x # None /\ x # ""

TRAINED_ATTRS ==
    << <<"LogisticRegression", "coef_">>,
       <<"RandomForestClassifier", "feature_importances_">>,
       <<"DecisionTreeClassifier", "tree_">>,
       <<"SVC", "support_">>,
       <<"KNeighborsClassifier", "_fit_X">> >>

AttrNames == {TRAINED_ATTRS[i][2] : i \in 1..Len(TRAINED_ATTRS)}

-----------------------------------------------------------------------------
(* _find_required_attr *)

\* A lookup that returns the last matching entry instead of the first
RECURSIVE FindLastFrom(_, _, _)
FindLastFrom(reg, c, i) ==
    IF i < 1 THEN None
    ELSE IF isinstance(c, reg[i][1]) THEN reg[i][2]
    ELSE FindLastFrom(reg, c, i - 1)

find_required_attr_last(reg, c) == FindLastFrom(reg, c, Len(reg))

\* The for loop over _TRAINED_ATTRS.items(), from entry i on
RECURSIVE FindFrom(_, _, _)
FindFrom(reg, c, i) ==
    IF i > Len(reg) THEN None
    ELSE IF isinstance(c, reg[i][1]) THEN reg[i][2]
    ELSE FindFrom(reg, c, i + 1)

find_required_attr(reg, c) == FindFrom(reg, c, 1)

-----------------------------------------------------------------------------
(* check_model_ready.wrapper *)

Invocation(c, as, args, kwargs, fres) ==
    [cls |-> c, attrs |-> as, args |-> args, kwargs |-> kwargs, result |-> fres]

\* A gate that lets every object through the base-class check
BaseCheckFails_never(c) == FALSE

\* if not isinstance(model, BaseEstimator)
BaseCheckFails(c) == ~isinstance(c, "BaseEstimator")

\* A gate that never looks for the evidence attribute
EvidenceMissing_never(req, as) == FALSE

\* A gate that also rejects the estimators the registry does not list
EvidenceMissing_rejectUnknown(req, as) == ~Truthy(req) \/ ~hasattr(as, req)

\* A gate that remembers an earlier rejection of the object
EvidenceMissing_sticky(req, as) ==
    Truthy(req) /\ (~hasattr(as, req) \/ rejectedBefore)

\* if required_attr and not hasattr(model, required_attr)
EvidenceMissing(req, as) == Truthy(req) /\ ~hasattr(as, req)

\* A gate that forwards the model alone
Delegate_noArgs(c, as, args, kwargs, fres, req) ==
    [outcome |-> fres,
     invocations |-> <<Invocation(c, as, <<>>, {}, fres)>>,
     required_attr |-> req]

\* A gate that calls func and drops what it returns
Delegate_dropResult(c, as, args, kwargs, fres, req) ==
    [outcome |-> IF fres.kind = "return" THEN Return(None) ELSE fres,
     invocations |-> <<Invocation(c, as, args, kwargs, fres)>>,
     required_attr |-> req]

\* return func(model, *args, **kwargs)
Delegate(c, as, args, kwargs, fres, req) ==
    [outcome |-> fres,
     invocations |-> <<Invocation(c, as, args, kwargs, fres)>>,
     required_attr |-> req]

\* print(...); return None
Reject(req) ==
    [outcome |-> Return(None), invocations |-> <<>>, required_attr |-> req]

\* The body of wrapper for a model of class c carrying attributes as; fres is
\* what func does when it is called.  The result is the outcome of the call,
\* the invocations of func it made and the value of the local required_attr.
wrapper(reg, c, as, args, kwargs, fres) ==
    IF BaseCheckFails(c)
    THEN Reject("unset")
    ELSE LET req == find_required_attr(reg, c) IN
         IF EvidenceMissing(req, as)
         THEN Reject(req)
         ELSE Delegate(c, as, args, kwargs, fres, req)

-----------------------------------------------------------------------------
(* catch.wrapper *)

\* A catch that lets every exception through
catch_wrapper_reraise(inner) == inner

\* try: return func(...)  except Exception: return None
catch_wrapper(inner) ==
    IF inner.kind = "raise" /\ "Exception" \in ExcBases(inner.val)
    THEN Return(None)
    ELSE inner

-----------------------------------------------------------------------------
(* Operations *)

Init ==
    /\ registry = TRAINED_ATTRS
    /\ cls \in Classes
    /\ attrs = {}
    /\ op = "init"
    /\ callArgs = <<>>
    /\ callKwargs = {}
    /\ invocations = <<>>
    /\ outcome = Return(None)
    /\ required_attr = "unset"
    /\ rejectedBefore = FALSE
    /\ d = <<>>
    /\ sep = <<>>
    /\ flat = <<>>

\* The caller's training step puts an attribute on the model
SetAttr ==
    \E a \in AttrNames :
        /\ a \notin attrs
        /\ attrs' = attrs \cup {a}
        /\ op' = "setattr"
        /\ callArgs' = <<>>
        /\ callKwargs' = {}
        /\ invocations' = <<>>
        /\ outcome' = Return(None)
        /\ required_attr' = "unset"
        /\ UNCHANGED <<registry, cls, rejectedBefore, d, sep, flat>>

\* A direct call _find_required_attr(model)
FindCall ==
    /\ op' = "find"
    /\ required_attr' = find_required_attr(registry, cls)
    /\ callArgs' = <<>>
    /\ callKwargs' = {}
    /\ invocations' = <<>>
    /\ outcome' = Return(find_required_attr(registry, cls))
    /\ UNCHANGED <<registry, cls, attrs, rejectedBefore, d, sep, flat>>

\* A call gated(model, *args, **kwargs) where gated = check_model_ready(func)
GatedCall ==
    \E args \in ArgLists, kwargs \in KwargSets, fres \in FuncOutcomes :
        LET r == wrapper(registry, cls, attrs, args, kwargs, fres) IN
        /\ op' = "gated"
        /\ callArgs' = args
        /\ callKwargs' = kwargs
        /\ invocations' = r.invocations
        /\ outcome' = r.outcome
        /\ required_attr' = r.required_attr
        /\ rejectedBefore' = (rejectedBefore \/ r.invocations = <<>>)
        /\ UNCHANGED <<registry, cls, attrs, d, sep, flat>>

\* A call catch(func)(model, *args, **kwargs)
CatchCall ==
    \E args \in ArgLists, kwargs \in KwargSets, fres \in FuncOutcomes :
        /\ op' = "catch"
        /\ callArgs' = args
        /\ callKwargs' = kwargs
        /\ invocations' = <<Invocation(cls, attrs, args, kwargs, fres)>>
        /\ outcome' = catch_wrapper(fres)
        /\ required_attr' = "unset"
        /\ UNCHANGED <<registry, cls, attrs, rejectedBefore, d, sep, flat>>

\* A call catch(check_model_ready(func))(model, *args, **kwargs)
CatchGatedCall ==
    \E args \in ArgLists, kwargs \in KwargSets, fres \in FuncOutcomes :
        LET r == wrapper(registry, cls, attrs, args, kwargs, fres) IN
        /\ op' = "catch_gated"
        /\ callArgs' = args
        /\ callKwargs' = kwargs
        /\ invocations' = r.invocations
        /\ outcome' = catch_wrapper(r.outcome)
        /\ required_attr' = r.required_attr
        /\ rejectedBefore' = (rejectedBefore \/ r.invocations = <<>>)
        /\ UNCHANGED <<registry, cls, attrs, d, sep, flat>>

Next ==
    \/ SetAttr
    \/ FindCall
    \/ GatedCall
    \/ CatchCall
    \/ CatchGatedCall

Spec == Init /\ [][Next]_vars

-----------------------------------------------------------------------------
(* flatten_dict *)

\* Largest number of entries, nested ones included, of a mapping passed in
MaxEntries == 3

\* Keys of the mappings passed in: "", "a", "b" and "a.b"
Keys == {<<>>, <<"a">>, <<"b">>, <<"a", ".", "b">>}

\* Separators passed in: "." (the default) and "-"
Seps == {<<".">>, <<"-">>}

LeafValues == {1, 2}

\* A value of a mapping is a leaf or a nested mapping; a mapping is the
\* sequence of its items in insertion order
Leaf(x) == [isdict |-> FALSE, leaf |-> x, items |-> <<>>]
Dict(its) == [isdict |-> TRUE, leaf |-> 0, items |-> its]
Item(k, v) == [k |-> k, v |-> v]

KeysOf(its) == {its[i].k : i \in 1..Len(its)}

\* The mappings with exactly n entries, nested entries included
RECURSIVE DictsOfSize(_)
DictsOfSize(n) ==
    IF n = 0 THEN {<<>>}
    ELSE UNION { UNION { { Append(rest, Item(k, v)) :
                               k \in Keys \ KeysOf(rest),
                               v \in (IF w = 1 THEN {Leaf(x) : x \in LeafValues} ELSE {})
                                     \cup {Dict(sub) : sub \in DictsOfSize(w - 1)} } :
                         rest \in DictsOfSize(n - w) } :
                 w \in 1..n }

\* The mappings with at most max entries
InputDicts(max) == UNION {DictsOfSize(n) : n \in 0..max}

\* A key builder that joins with "." whatever separator was passed
new_key_defaultSep(parent_key, sp, k) ==
    IF parent_key # <<>> THEN parent_key \o <<".">> \o k ELSE k

\* new_key = f"{parent_key}{sep}{k}" if parent_key else k
new_key(parent_key, sp, k) ==
    IF parent_key # <<>> THEN parent_key \o sp \o k ELSE k

\* dict(items): a later pair with a key already present replaces its value
RECURSIVE dict(_)
dict(pairs) ==
    IF pairs = <<>> THEN <<>>
    ELSE LET n == Len(pairs)
             acc == dict(SubSeq(pairs, 1, n - 1))
             p == pairs[n]
         IN  IF \E j \in 1..Len(acc) : acc[j].k = p.k
             THEN [j \in 1..Len(acc) |-> IF acc[j].k = p.k THEN p ELSE acc[j]]
             ELSE Append(acc, p)

\* flatten_dict(d, parent_key, sep) and its for loop from item i on, which
\* gives the list items
RECURSIVE flatten_dict(_, _, _), FlattenLoop(_, _, _, _)
FlattenLoop(its, parent_key, sp, i) ==
    IF i > Len(its) THEN <<>>
    ELSE LET nk == new_key(parent_key, sp, its[i].k)
             v == its[i].v
         IN  (IF v.isdict
              THEN flatten_dict(v.items, nk, sp)
              ELSE <<Item(nk, v)>>)
             \o FlattenLoop(its, parent_key, sp, i + 1)

flatten_dict(its, parent_key, sp) == dict(FlattenLoop(its, parent_key, sp, 1))

\* State before a caller hands a mapping and a separator to flatten_dict
InitFlatten ==
    /\ registry = TRAINED_ATTRS
    /\ cls = "DummyModel"
    /\ attrs = {}
    /\ op = "init"
    /\ callArgs = <<>>
    /\ callKwargs = {}
    /\ invocations = <<>>
    /\ outcome = Return(None)
    /\ required_attr = "unset"
    /\ rejectedBefore = FALSE
    /\ d \in InputDicts(MaxEntries)
    /\ sep \in Seps
    /\ flat = <<>>

\* A call flatten_dict(d, sep=sep)
FlattenCall ==
    /\ op = "init"
    /\ op' = "flatten"
    /\ flat' = flatten_dict(d, <<>>, sep)
    /\ UNCHANGED <<registry, cls, attrs, callArgs, callKwargs, invocations,
                   outcome, required_attr, rejectedBefore, d, sep>>

NextFlatten == FlattenCall

SpecFlatten == InitFlatten /\ [][NextFlatten]_vars

-----------------------------------------------------------------------------
(* Vocabulary of the properties *)

\* The call that ran last was a call of the gated function
GatedOp == op = "gated"

\* The last call never reached func / called func exactly once
NotInvoked == invocations = <<>>
InvokedOnce == Len(invocations) = 1

\* The model is an instance of the estimator base class
IsEstimator == "BaseEstimator" \in Mro(cls)

\* Positions of the registry entries whose class the model is an instance of
MatchingEntries == {i \in 1..Len(TRAINED_ATTRS) : TRAINED_ATTRS[i][1] \in Mro(cls)}

IsRegisteredKind == MatchingEntries # {}

\* The evidence attribute of the model's kind: the one of the first entry, in
\* registration order, that the model is an instance of
Evidence ==
    LET first == CHOOSE i \in MatchingEntries : \A j \in MatchingEntries : i <= j
    IN  TRAINED_ATTRS[first][2]

\* func was called once with the model and the caller's own arguments
InvokedWithOriginalArguments ==
    /\ InvokedOnce
    /\ invocations[1].cls = cls
    /\ invocations[1].attrs = attrs
    /\ invocations[1].args = callArgs
    /\ invocations[1].kwargs = callKwargs

\* The call ended exactly as the invocation of func ended
OutcomeIsFuncOutcome == InvokedOnce /\ outcome = invocations[1].result

-----------------------------------------------------------------------------
(* Properties of the gate *)

C2_UnfittedRejected ==
    (GatedOp /\ IsRegisteredKind /\ Evidence \notin attrs)
        => (outcome = Return(None) /\ NotInvoked)

C2_Witness ==
    /\ GatedOp /\ cls = "MyLogReg" /\ attrs = {"tree_"}
    /\ outcome = Return(None) /\ NotInvoked

\* C3: a gated call on an estimator of a registered kind that carries its
\* evidence attribute invokes the wrapped function exactly once, with the same
\* model and the same remaining positional and keyword arguments, and ends
\* exactly as the wrapped function ended.
C3_FittedDelegated ==
    (GatedOp /\ IsRegisteredKind /\ Evidence \in attrs)
        => (InvokedWithOriginalArguments /\ OutcomeIsFuncOutcome)

C3_Witness ==
    /\ GatedOp /\ cls = "SVC" /\ "support_" \in attrs
    /\ callArgs = <<"X", "y">> /\ callKwargs = {"verbose"}
    /\ InvokedWithOriginalArguments /\ outcome = Return("ok")

\* C4: for a model of a plain class, not derived from the estimator base
\* class, a gated call returns the wrapped function's result if the object
\* carries coef_ and returns None if it does not.
C4_PlainClassGatedByCoef ==
    (GatedOp /\ cls = "DummyModel")
        => IF "coef_" \in attrs
           THEN OutcomeIsFuncOutcome
           ELSE outcome = Return(None) /\ NotInvoked

\* C5: a gated call on an estimator that passes the base-class check and
\* matches no registry entry invokes the wrapped function and returns its
\* result, whichever attributes the object carries.
C5_UnknownKindPassesThrough ==
    (GatedOp /\ IsEstimator /\ ~IsRegisteredKind)
        => (InvokedWithOriginalArguments /\ OutcomeIsFuncOutcome)

C5_Witness ==
    /\ GatedOp /\ cls = "KMeans" /\ attrs = {}
    /\ required_attr = None
    /\ InvokedOnce /\ outcome = Return("ok")

\* C6: over a sequence of gated calls on one object of a registered kind, a
\* call made while the object lacks its evidence attribute returns None
\* without invoking the wrapped function, a call made once the attribute is
\* there ends as the wrapped function ends, also when an earlier call on the
\* object was rejected, and a call changes neither the object nor the registry.
C6_RejectionLeavesNoState ==
    [][ (op' = "gated" /\ IsRegisteredKind) =>
            /\ attrs' = attrs /\ cls' = cls /\ registry' = registry
            /\ IF Evidence \in attrs
               THEN Len(invocations') = 1 /\ outcome' = invocations'[1].result
               ELSE invocations' = <<>> /\ outcome' = Return(None) ]_vars

C6_Witness ==
    /\ GatedOp /\ cls = "LogisticRegression" /\ rejectedBefore
    /\ "coef_" \in attrs
    /\ InvokedOnce /\ outcome = Return("ok")

\* C7 as stated: the value returned on rejection differs from every value a
\* gated call returns after delegating, so the returned value alone tells a
\* rejected call from a delegated one.
C7_SentinelDistinct ==
    (GatedOp /\ InvokedOnce /\ outcome.kind = "return") => outcome.val # None

\* C7 as amended: a gated call returns None exactly when it was rejected or
\* the wrapped function itself returned None; a delegated call returns the
\* value of the wrapped function, so the returned value tells the two apart
\* only for a wrapped function that does not return None.
C7_NoneIffRejectedOrFuncNone ==
    (GatedOp /\ outcome.kind = "return") =>
        /\ (outcome.val = None) <=>
               (NotInvoked \/ (InvokedOnce /\ invocations[1].result = Return(None)))
        /\ InvokedOnce => outcome = invocations[1].result

C7_Witness ==
    /\ GatedOp /\ IsEstimator /\ InvokedOnce
    /\ invocations[1].result = Return(None) /\ outcome = Return(None)

C10_FirstMatchInRegistrationOrder ==
    [][ op' = "find" =>
            /\ required_attr' = IF IsRegisteredKind THEN Evidence ELSE None
            /\ outcome' = Return(required_attr')
            /\ registry' = registry /\ attrs' = attrs /\ cls' = cls ]_vars

C10_Witness ==
    /\ op = "find" /\ cls = "TreeLog" /\ required_attr = "coef_"

-----------------------------------------------------------------------------
(* Properties of flatten_dict *)

\* The non-mapping leaves below its, in traversal order, each with the path
\* of keys from the root (prefix is the path to its)
RECURSIVE LeafPaths(_, _)
LeafPaths(its, prefix) ==
    IF its = <<>> THEN <<>>
    ELSE LET h == its[1]
             here == Append(prefix, h.k)
         IN  (IF h.v.isdict
              THEN LeafPaths(h.v.items, here)
              ELSE <<[path |-> here, v |-> h.v]>>)
             \o LeafPaths(Tail(its), prefix)

\* All keys used in its, at every level
RECURSIVE AllKeys(_)
AllKeys(its) ==
    IF its = <<>> THEN {}
    ELSE {its[1].k} \cup AllKeys(its[1].v.items) \cup AllKeys(Tail(its))

\* The keys of path joined by the separator sp
RECURSIVE JoinPath(_, _)
JoinPath(path, sp) ==
    IF Len(path) = 0 THEN <<>>
    ELSE IF Len(path) = 1 THEN path[1]
    ELSE path[1] \o sp \o JoinPath(Tail(path), sp)

\* path without its leading empty keys
RECURSIVE DropLeadingEmpty(_)
DropLeadingEmpty(path) ==
    IF path # <<>> /\ path[1] = <<>> THEN DropLeadingEmpty(Tail(path)) ELSE path

\* string s contains the one-character string ch
Contains(s, ch) == \E i \in 1..Len(s) : <<s[i]>> = ch

FlatKeys == {flat[j].k : j \in 1..Len(flat)}

FlatKeysDistinct ==
    \A i, j \in 1..Len(flat) : flat[i].k = flat[j].k => i = j

\* C8 as stated: the result has exactly one key per non-mapping leaf, the key
\* is the separator-joined full path from the root to the leaf, the keys are
\* pairwise distinct, the value is that leaf, and an empty nested mapping
\* contributes no key.
C8_OneKeyPerLeaf ==
    op = "flatten" =>
        LET L == LeafPaths(d, <<>>) IN
        /\ Len(flat) = Len(L)
        /\ FlatKeysDistinct
        /\ FlatKeys = {JoinPath(L[i].path, sep) : i \in 1..Len(L)}
        /\ \A i \in 1..Len(L) :
               \E j \in 1..Len(flat) :
                   flat[j].k = JoinPath(L[i].path, sep) /\ flat[j].v = L[i].v

\* C8 as amended: the keys of the result are pairwise distinct and are exactly
\* the keys built for the non-mapping leaves, a leaf's key being the
\* separator-joined path from the root with the leading empty keys dropped;
\* each key holds the value of the last leaf, in traversal order, that builds
\* it; an empty nested mapping contributes no key.  When every key in the
\* input is non-empty and free of the (one-character) separator, that is
\* exactly one key per leaf, equal to the separator-joined full path.
C8_KeysBuiltPerLeafLastWins ==
    op = "flatten" =>
        LET L == LeafPaths(d, <<>>)
            Built(i) == JoinPath(DropLeadingEmpty(L[i].path), sep)
        IN
        /\ FlatKeysDistinct
        /\ FlatKeys = {Built(i) : i \in 1..Len(L)}
        /\ \A j \in 1..Len(flat) :
               \E i \in 1..Len(L) :
                   /\ Built(i) = flat[j].k
                   /\ flat[j].v = L[i].v
                   /\ \A m \in 1..Len(L) : Built(m) = flat[j].k => m <= i
        /\ (\A k \in AllKeys(d) : k # <<>> /\ ~Contains(k, sep)) =>
               /\ Len(flat) = Len(L)
               /\ \A i \in 1..Len(L) :
                      \E j \in 1..Len(flat) :
                          /\ flat[j].k = JoinPath(L[i].path, sep)
                          /\ flat[j].v = L[i].v

\* {a: {b: {a: 1}}} with separator "-" gives {"a-b-a": 1}
C8_Witness ==
    /\ op = "flatten"
    /\ sep = <<"-">>
    /\ d = <<Item(<<"a">>, Dict(<<Item(<<"b">>, Dict(<<Item(<<"a">>, Leaf(1))>>))>>))>>
    /\ flat = <<Item(<<"a", "-", "b", "-", "a">>, Leaf(1))>>

====
